---- MODULE Spec2Model ----
(***************************************************************************)
(* Model of the schema resolver of timeplus_schema_reader.py:              *)
(* TimeplusSchemaReader.get_schema_dict and the methods it calls, run      *)
(* against a database whose behaviour (driver present or not, client       *)
(* construction, SELECT 1 probe, system.columns query, DESCRIBE query) is  *)
(* the environment.                                                        *)
(*                                                                         *)
(* A Python dict is modelled as a sequence of <<key, value>> pairs in      *)
(* insertion order; a query result is a sequence of rows, a row a sequence *)
(* of strings of any length.  An exception that leaves get_schema_dict is  *)
(* the control state "raised".                                             *)
(***************************************************************************)
EXTENDS Integers, Sequences, FiniteSets, TLC

VARIABLES
    PROTON_AVAILABLE,  \* module flag set by the import at lines 10-15
    params,            \* self.host, self.port, self.user, self.password, self.database
    client,            \* self.client: NoClient (None) or the id of a Client object
    db,                \* the database's current behaviour (environment)
    pc,                \* per thread: position inside get_schema_dict
    table,             \* per thread: the table_name argument
    columns_info,      \* per thread: the list get_table_columns returned
    result,            \* per thread: the dict get_schema_dict returned
    qlog,              \* per thread (history): statements executed in this call
    seen,              \* per thread (history): failure modes met in this call
    callNo,            \* per thread (history): the number of its current call;
                       \*   the Client a call constructs carries that number
    calls,             \* number of get_schema_dict calls started so far
    prev,              \* history: the previous completed call, if the database
                       \*   did not change since that call started
    lastSource,        \* history: the source of the last returned dict, "none"
                       \*   before the first return
    analyzer,          \* the analyzer service's current behaviour (environment)
    args               \* per thread: the arguments of its validate_sql_query call

vars == <<PROTON_AVAILABLE, params, client, db, pc, table, columns_info,
          result, qlog, seen, callNo, calls, prev, lastSource, analyzer, args>>

-----------------------------------------------------------------------------
(* Bounds *)

MaxRows == 2       \* rows a system.columns result may hold
MaxDescRows == 1   \* rows a DESCRIBE result may hold
MaxCalls == 2      \* get_schema_dict calls in one behaviour

-----------------------------------------------------------------------------
(* Values *)

NoClient == 0

Threads == {"main", "worker"}
MainThread == "main"

Tables == {"t_metrics", "orders"}

Queries == {"primary", "describe"}

RowBound(q) == IF q = "primary" THEN MaxRows ELSE MaxDescRows

\* Rows the database may return.  system.columns is asked for name, type,
\* comment: rows of 0 to 3 fields, a column of the business-description
\* table ("metric") and one outside it ("extra"), with and without a
\* database comment.  DESCRIBE rows have 0 to 4 fields.
Rows(q) ==
    IF q = "primary"
    THEN { <<>>,
           <<"extra">>,
           <<"metric", "string">>,
           <<"metric", "string", "">>,
           <<"metric", "string", "db note">>,
           <<"extra", "int64", "">> }
    ELSE { <<>>,
           <<"extra">>,
           <<"metric", "string">>,
           <<"extra", "int64", "db note", "more">> }

RowLists(q) == UNION { [1..k -> Rows(q)] : k \in 0..RowBound(q) }

\* What the database answers to one statement: an exception or rows.
Answers(q) ==
    { [raises |-> TRUE, rows |-> <<>>] } \cup
    { [raises |-> FALSE, rows |-> rs] : rs \in RowLists(q) }

\* ctor: client.Client(...) returns a Client; probe: SELECT 1 succeeds on
\* it.  A server that refuses the client answers no probe.
DbStates ==
    { [ctor |-> h[1], probe |-> h[2], query |-> [q \in Queries |-> IF q = "primary" THEN a ELSE b]] :
        h \in {<<FALSE, FALSE>>, <<TRUE, FALSE>>, <<TRUE, TRUE>>},
        a \in Answers("primary"), b \in Answers("describe") }

NoResult == [source |-> "none"]
NoPrev == [table_name |-> "", result |-> NoResult]

\* the SQL strings, hosts and ports validate_sql_query is called with; "" and
\* 0 are the falsy arguments (None, or an empty host, or port 0)
NoHost == ""
NoPort == 0
SqlStrings == {"", "SELECT 1", "SELEC metric FROM"}
Hosts == {NoHost, "analyzer.internal"}
Ports == {NoPort, 3218, 8000}
NoArgs == [sql |-> "", host |-> NoHost, port |-> NoPort]

\* what analyze_sql does with one SQL string: it raises, or returns an analysis
AnalyzeOutcomes ==
    { [raises |-> TRUE, analysis |-> ""],
      [raises |-> FALSE, analysis |-> "tables and columns"],
      [raises |-> FALSE, analysis |-> "errors reported"] }

\* the analyzer service: whether Client(...) can be constructed, and what
\* analyze_sql does with each SQL string
AnalyzerStates == [ctor : BOOLEAN, analyze : [SqlStrings -> AnalyzeOutcomes]]

AnalyzerDown == [ctor |-> FALSE,
                 analyze |-> [q \in SqlStrings |-> [raises |-> TRUE, analysis |-> ""]]]

-----------------------------------------------------------------------------
(* Python dicts as insertion-ordered sequences of <<key, value>> pairs *)

DictKeys(d) == { d[i][1] : i \in 1..Len(d) }

DictHas(d, k) == k \in DictKeys(d)

DictGet(d, k) == d[CHOOSE i \in 1..Len(d) : d[i][1] = k][2]

\* d[k] = v: an existing key keeps its position and takes the new value,
\* a new key goes to the end.
DictSet(d, k, v) ==
    IF DictHas(d, k)
    THEN [i \in 1..Len(d) |-> IF d[i][1] = k THEN <<k, v>> ELSE d[i]]
    ELSE Append(d, <<k, v>>)

-----------------------------------------------------------------------------
(* Literal tables of the reader *)

\* Variant: the text of one column was edited in this table only.
get_column_descriptions_drifted ==
    << <<"event_ts", "Event timestamp">>,
       <<"metric", "Metric name identifier">>,
       <<"value", "Metric value">>,
       <<"metric_date", "Date component">>,
       <<"metric_time", "Time component">>,
       <<"metric_datetime", "Combined datetime">>,
       <<"tagK1", "Tag key 1">>,
       <<"tagV1", "Tag value 1">>,
       <<"tagK2", "Tag key 2">>,
       <<"tagV2", "Tag value 2">>,
       <<"tagK3", "Tag key 3">>,
       <<"tagV3", "Tag value 3">>,
       <<"tagK4", "Tag key 4">>,
       <<"tagV4", "Tag value 4">>,
       <<"tagK5", "Tag key 5">>,
       <<"tagV5", "Tag value 5">>,
       <<"_tp_time", "System timestamp">> >>

get_column_descriptions ==
    << <<"event_ts", "Event timestamp">>,
       <<"metric", "Metric name identifier">>,
       <<"value", "Metric value (use to_float64() for numeric operations)">>,
       <<"metric_date", "Date component">>,
       <<"metric_time", "Time component">>,
       <<"metric_datetime", "Combined datetime">>,
       <<"tagK1", "Tag key 1">>,
       <<"tagV1", "Tag value 1">>,
       <<"tagK2", "Tag key 2">>,
       <<"tagV2", "Tag value 2">>,
       <<"tagK3", "Tag key 3">>,
       <<"tagV3", "Tag value 3">>,
       <<"tagK4", "Tag key 4">>,
       <<"tagV4", "Tag value 4">>,
       <<"tagK5", "Tag key 5">>,
       <<"tagV5", "Tag value 5">>,
       <<"_tp_time", "System timestamp">> >>

\* Variant: the literal lists the tag values before the tag keys.
FallbackColumnsTagsSwapped ==
    << <<"event_ts", "uint64 - Event timestamp">>,
       <<"metric", "string - Metric name identifier">>,
       <<"value", "string - Metric value (use to_float64() for numeric operations)">>,
       <<"metric_date", "int64 - Date component">>,
       <<"metric_time", "int64 - Time component">>,
       <<"metric_datetime", "int64 - Combined datetime">>,
       <<"tagV1", "string - Tag value 1">>,
       <<"tagK1", "low_cardinality(string) - Tag key 1">>,
       <<"tagV2", "string - Tag value 2">>,
       <<"tagK2", "low_cardinality(string) - Tag key 2">>,
       <<"tagV3", "string - Tag value 3">>,
       <<"tagK3", "low_cardinality(string) - Tag key 3">>,
       <<"tagV4", "string - Tag value 4">>,
       <<"tagK4", "low_cardinality(string) - Tag key 4">>,
       <<"tagV5", "string - Tag value 5">>,
       <<"tagK5", "low_cardinality(string) - Tag key 5">>,
       <<"_tp_time", "datetime64(3, 'UTC') - System timestamp">> >>

FallbackColumns ==
    << <<"event_ts", "uint64 - Event timestamp">>,
       <<"metric", "string - Metric name identifier">>,
       <<"value", "string - Metric value (use to_float64() for numeric operations)">>,
       <<"metric_date", "int64 - Date component">>,
       <<"metric_time", "int64 - Time component">>,
       <<"metric_datetime", "int64 - Combined datetime">>,
       <<"tagK1", "low_cardinality(string) - Tag key 1">>,
       <<"tagV1", "string - Tag value 1">>,
       <<"tagK2", "low_cardinality(string) - Tag key 2">>,
       <<"tagV2", "string - Tag value 2">>,
       <<"tagK3", "low_cardinality(string) - Tag key 3">>,
       <<"tagV3", "string - Tag value 3">>,
       <<"tagK4", "low_cardinality(string) - Tag key 4">>,
       <<"tagV4", "string - Tag value 4">>,
       <<"tagK5", "low_cardinality(string) - Tag key 5">>,
       <<"tagV5", "string - Tag value 5">>,
       <<"_tp_time", "datetime64(3, 'UTC') - System timestamp">> >>

SchemaDescription == "Time-series metrics data table - ONLY TABLE ALLOWED FOR QUERIES"

SchemaConstraints ==
    << "SINGLE TABLE ONLY - No JOINs allowed",
       "No subqueries with other tables",
       "Must search CSV knowledge base first to find relevant metrics" >>

\* Variant: the fallback dict names the table it describes, not the one asked for.
get_fallback_schema_known_table(table_name) ==
    [ table_name  |-> "t_metrics",
      description |-> SchemaDescription,
      columns     |-> FallbackColumns,
      constraints |-> SchemaConstraints,
      source      |-> "fallback" ]

\* Variant: the fallback dict also reports the connection parameters.
get_fallback_schema_with_info(table_name) ==
    [ table_name      |-> table_name,
      description     |-> SchemaDescription,
      columns         |-> FallbackColumns,
      constraints     |-> SchemaConstraints,
      source          |-> "fallback",
      connection_info |-> [host |-> params.host, port |-> params.port,
                           database |-> params.database] ]

\* _get_fallback_schema(table_name)
get_fallback_schema(table_name) ==
    [ table_name  |-> table_name,
      description |-> SchemaDescription,
      columns     |-> FallbackColumns,
      constraints |-> SchemaConstraints,
      source      |-> "fallback" ]

-----------------------------------------------------------------------------
(* Row handling *)

\* row[i-1] if len(row) > i-1 else ""
Field(row, i) == IF Len(row) >= i THEN row[i] ELSE ""

\* the loop of get_table_columns: every row gives a triple, padded with ""
PrimaryColumns(rows) ==
    [i \in 1..Len(rows) |-> <<Field(rows[i], 1), Field(rows[i], 2), Field(rows[i], 3)>>]

HasTwoFields(row) == Len(row) >= 2

\* the loop of _describe_table: rows with fewer than two fields are skipped
DescribeColumns(rows) ==
    LET kept == SelectSeq(rows, HasTwoFields)
    IN  [i \in 1..Len(kept) |-> <<kept[i][1], kept[i][2], Field(kept[i], 3)>>]

\* Variant: the business text wins over the database comment.
ColumnDescriptionBusinessFirst(col_name, col_type, comment) ==
    IF DictHas(get_column_descriptions, col_name)
    THEN col_type \o " - " \o DictGet(get_column_descriptions, col_name)
    ELSE IF comment # ""
         THEN col_type \o " - " \o comment
         ELSE col_type

\* Variant: the separator is written before the comment is looked at.
ColumnDescriptionDangling(col_name, col_type, comment) ==
    IF comment # ""
    THEN col_type \o " - " \o comment
    ELSE IF DictHas(get_column_descriptions, col_name)
         THEN col_type \o " - " \o DictGet(get_column_descriptions, col_name)
         ELSE col_type \o " - "

\* the description of one column, lines 144-148
ColumnDescription(col_name, col_type, comment) ==
    IF comment # ""
    THEN col_type \o " - " \o comment
    ELSE IF DictHas(get_column_descriptions, col_name)
         THEN col_type \o " - " \o DictGet(get_column_descriptions, col_name)
         ELSE col_type

\* the loop that builds the columns dict, lines 142-149
RECURSIVE BuildColumns(_, _)
BuildColumns(info, acc) ==
    IF info = <<>>
    THEN acc
    ELSE BuildColumns(Tail(info),
                      DictSet(acc, Head(info)[1],
                              ColumnDescription(Head(info)[1], Head(info)[2], Head(info)[3])))

\* the dict returned at lines 151-166
LiveSchema(table_name, info, p) ==
    [ table_name      |-> table_name,
      description     |-> SchemaDescription,
      columns         |-> BuildColumns(info, <<>>),
      constraints     |-> SchemaConstraints,
      source          |-> "timeplus_api",
      connection_info |-> [host |-> p.host, port |-> p.port, database |-> p.database] ]

\* Variant: the check "if not columns_info" is missing.
SchemaForUnchecked(table_name, info, p) ==
    LiveSchema(table_name, info, p)

\* lines 138-166: the fallback for an empty list, else the live dict
SchemaFor(table_name, info, p) ==
    IF info = <<>>
    THEN get_fallback_schema(table_name)
    ELSE LiveSchema(table_name, info, p)

-----------------------------------------------------------------------------
(* The methods, as functions of the resolver's state and the database *)

\* Variant: an existing self.client is kept and probed again (pooling).
connect_pooled(avail, d, cur, fresh) ==
    IF ~avail
    THEN [ret |-> FALSE, client |-> cur, constructed |-> FALSE, probed |-> FALSE, exc |-> FALSE]
    ELSE IF cur # NoClient
    THEN [ret |-> d.probe, client |-> cur, constructed |-> FALSE, probed |-> TRUE, exc |-> FALSE]
    ELSE IF ~d.ctor
    THEN [ret |-> FALSE, client |-> cur, constructed |-> FALSE, probed |-> FALSE, exc |-> FALSE]
    ELSE [ret |-> d.probe, client |-> fresh, constructed |-> TRUE, probed |-> TRUE, exc |-> FALSE]

\* Variant: a reader that already has a client refuses to connect again.
connect_once(avail, d, cur, fresh) ==
    IF ~avail \/ cur # NoClient \/ ~d.ctor
    THEN [ret |-> FALSE, client |-> cur, constructed |-> FALSE, probed |-> FALSE, exc |-> FALSE]
    ELSE [ret |-> d.probe, client |-> fresh, constructed |-> TRUE, probed |-> TRUE, exc |-> FALSE]

\* Variant: the except branch reports success.
connect_ignores_probe(avail, d, cur, fresh) ==
    IF ~avail
    THEN [ret |-> FALSE, client |-> cur, constructed |-> FALSE, probed |-> FALSE, exc |-> FALSE]
    ELSE IF ~d.ctor
    THEN [ret |-> TRUE, client |-> cur, constructed |-> FALSE, probed |-> FALSE, exc |-> FALSE]
    ELSE [ret |-> TRUE, client |-> fresh, constructed |-> TRUE, probed |-> TRUE, exc |-> FALSE]

\* connect(), lines 43-61.  cur is self.client on entry, fresh the Client
\* the constructor would return.  exc: an exception leaves the method.
connect(avail, d, cur, fresh) ==
    IF ~avail
    THEN [ret |-> FALSE, client |-> cur, constructed |-> FALSE, probed |-> FALSE, exc |-> FALSE]
    ELSE IF ~d.ctor
    THEN [ret |-> FALSE, client |-> cur, constructed |-> FALSE, probed |-> FALSE, exc |-> FALSE]
    ELSE IF ~d.probe
    THEN [ret |-> FALSE, client |-> fresh, constructed |-> TRUE, probed |-> TRUE, exc |-> FALSE]
    ELSE [ret |-> TRUE, client |-> fresh, constructed |-> TRUE, probed |-> TRUE, exc |-> FALSE]

\* Variant: an empty system.columns result is returned as it is.
get_table_columns_no_describe(d, cl) ==
    IF cl = NoClient
    THEN [queried |-> FALSE, describe |-> FALSE, columns |-> <<>>]
    ELSE IF d.query["primary"].raises
    THEN [queried |-> TRUE, describe |-> TRUE, columns |-> <<>>]
    ELSE [queried |-> TRUE, describe |-> FALSE,
          columns |-> PrimaryColumns(d.query["primary"].rows)]

\* get_table_columns(), lines 73-102, up to the call of _describe_table.
\* describe: the method goes on to return self._describe_table(table_name).
get_table_columns(d, cl) ==
    IF cl = NoClient
    THEN [queried |-> FALSE, describe |-> FALSE, columns |-> <<>>]
    ELSE IF d.query["primary"].raises
    THEN [queried |-> TRUE, describe |-> TRUE, columns |-> <<>>]
    ELSE LET columns == PrimaryColumns(d.query["primary"].rows)
         IN  [queried |-> TRUE, describe |-> columns = <<>>, columns |-> columns]

\* Variant: no try/except around the DESCRIBE statement.
describe_table_no_catch(d, cl) ==
    IF cl = NoClient
    THEN [queried |-> FALSE, columns |-> <<>>, exc |-> TRUE]
    ELSE IF d.query["describe"].raises
    THEN [queried |-> TRUE, columns |-> <<>>, exc |-> TRUE]
    ELSE [queried |-> TRUE, columns |-> DescribeColumns(d.query["describe"].rows), exc |-> FALSE]

\* _describe_table(), lines 104-121.  With self.client None the attribute
\* access raises inside the try and the method returns [].
describe_table(d, cl) ==
    IF cl = NoClient
    THEN [queried |-> FALSE, columns |-> <<>>, exc |-> FALSE]
    ELSE IF d.query["describe"].raises
    THEN [queried |-> TRUE, columns |-> <<>>, exc |-> FALSE]
    ELSE [queried |-> TRUE, columns |-> DescribeColumns(d.query["describe"].rows), exc |-> FALSE]

-----------------------------------------------------------------------------
(* History helpers *)

\* one executed statement: which, on which Client, and how many rows came
\* back (-1: the statement raised)
Stmt(q, cl, answer) ==
    [q |-> q, client |-> cl, rows |-> IF answer.raises THEN -1 ELSE Len(answer.rows)]

ShortRow(rows) == \E i \in 1..Len(rows) : Len(rows[i]) < 3

Malformed(answer) ==
    IF ~answer.raises /\ ShortRow(answer.rows) THEN {"MalformedRow"} ELSE {}

-----------------------------------------------------------------------------
(* Initial state: the module is imported and the reader constructed *)

Init ==
    /\ PROTON_AVAILABLE \in BOOLEAN
    /\ params = [host |-> "localhost", port |-> 8463, user |-> "default",
                 password |-> "", database |-> "default"]
    /\ client = NoClient
    /\ db \in IF PROTON_AVAILABLE THEN DbStates ELSE {CHOOSE d \in DbStates : ~d.ctor}
    /\ pc = [p \in Threads |-> "idle"]
    /\ table = [p \in Threads |-> ""]
    /\ columns_info = [p \in Threads |-> <<>>]
    /\ result = [p \in Threads |-> NoResult]
    /\ qlog = [p \in Threads |-> <<>>]
    /\ seen = [p \in Threads |-> {}]
    /\ callNo = [p \in Threads |-> 0]
    /\ calls = 0
    /\ prev = NoPrev
    /\ lastSource = "none"
    /\ analyzer = AnalyzerDown
    /\ args = [p \in Threads |-> NoArgs]

-----------------------------------------------------------------------------
(* get_schema_dict, one action per step *)

\* get_table_schema(table_name): thread p enters reader.get_schema_dict
get_table_schema(p, t) ==
    /\ pc[p] = "idle"
    /\ calls < MaxCalls
    /\ calls' = calls + 1
    /\ pc' = [pc EXCEPT ![p] = "connect"]
    /\ table' = [table EXCEPT ![p] = t]
    /\ UNCHANGED <<columns_info, result, qlog, seen>>
    /\ callNo' = [callNo EXCEPT ![p] = calls + 1]
    /\ UNCHANGED <<PROTON_AVAILABLE, analyzer, args, params, client, db, prev, lastSource>>

\* Variant: a reader that cannot connect points itself at the loopback address.
ConnectRehost(p) ==
    /\ pc[p] = "connect"
    /\ LET r == connect(PROTON_AVAILABLE, db, client, callNo[p])
       IN  /\ client' = r.client
           /\ qlog' = [qlog EXCEPT ![p] =
                         IF r.probed
                         THEN Append(@, Stmt("probe", r.client, [raises |-> ~db.probe, rows |-> <<<<"1">>>>]))
                         ELSE @]
           /\ seen' = [seen EXCEPT ![p] =
                         IF ~PROTON_AVAILABLE THEN {"DriverUnavailable"}
                         ELSE IF ~r.ret THEN {"ConnectionError"}
                         ELSE {}]
           /\ IF r.ret
              THEN /\ pc' = [pc EXCEPT ![p] = "columns"]
                   /\ UNCHANGED <<result, params>>
              ELSE /\ pc' = [pc EXCEPT ![p] = "done"]
                   /\ result' = [result EXCEPT ![p] = get_fallback_schema(table[p])]
                   /\ params' = [params EXCEPT !.host = "127.0.0.1"]
    /\ UNCHANGED <<PROTON_AVAILABLE, analyzer, args, db, table, columns_info, callNo, calls, prev, lastSource>>

\* lines 133-134: if not self.connect(): return self._get_fallback_schema(table_name)
Connect(p) ==
    /\ pc[p] = "connect"
    /\ LET r == connect(PROTON_AVAILABLE, db, client, callNo[p])
       IN  IF r.exc
           THEN /\ pc' = [pc EXCEPT ![p] = "raised"]
                /\ UNCHANGED <<client, qlog, seen, result>>
           ELSE /\ client' = r.client
                /\ qlog' = [qlog EXCEPT ![p] =
                              IF r.probed
                              THEN Append(@, Stmt("probe", r.client, [raises |-> ~db.probe, rows |-> <<<<"1">>>>]))
                              ELSE @]
                /\ seen' = [seen EXCEPT ![p] =
                              IF ~PROTON_AVAILABLE THEN {"DriverUnavailable"}
                              ELSE IF ~r.ret THEN {"ConnectionError"}
                              ELSE {}]
                /\ IF r.ret
                   THEN /\ pc' = [pc EXCEPT ![p] = "columns"]
                        /\ UNCHANGED result
                   ELSE /\ pc' = [pc EXCEPT ![p] = "done"]
                        /\ result' = [result EXCEPT ![p] = get_fallback_schema(table[p])]
    /\ UNCHANGED <<PROTON_AVAILABLE, analyzer, args, params, db, table, columns_info, callNo, calls, prev, lastSource>>

\* line 136, lines 73-98: the system.columns query and its loop
GetTableColumns(p) ==
    /\ pc[p] = "columns"
    /\ LET r == get_table_columns(db, client)
       IN  /\ qlog' = [qlog EXCEPT ![p] =
                         IF r.queried THEN Append(@, Stmt("primary", client, db.query["primary"])) ELSE @]
           /\ seen' = [seen EXCEPT ![p] =
                         IF r.queried THEN @ \cup Malformed(db.query["primary"]) ELSE @]
           /\ IF r.describe
              THEN /\ pc' = [pc EXCEPT ![p] = "describe"]
                   /\ UNCHANGED columns_info
              ELSE /\ pc' = [pc EXCEPT ![p] = "build"]
                   /\ columns_info' = [columns_info EXCEPT ![p] = r.columns]
    /\ UNCHANGED <<PROTON_AVAILABLE, analyzer, args, params, client, db, table, result, callNo,
                   calls, prev, lastSource>>

\* lines 96 and 102: return self._describe_table(table_name)
DescribeTable(p) ==
    /\ pc[p] = "describe"
    /\ LET r == describe_table(db, client)
       IN  IF r.exc
           THEN /\ pc' = [pc EXCEPT ![p] = "raised"]
                /\ UNCHANGED <<qlog, seen, columns_info>>
           ELSE /\ qlog' = [qlog EXCEPT ![p] =
                              IF r.queried THEN Append(@, Stmt("describe", client, db.query["describe"])) ELSE @]
                /\ seen' = [seen EXCEPT ![p] =
                              IF r.queried THEN @ \cup Malformed(db.query["describe"]) ELSE @]
                /\ columns_info' = [columns_info EXCEPT ![p] = r.columns]
                /\ pc' = [pc EXCEPT ![p] = "build"]
    /\ UNCHANGED <<PROTON_AVAILABLE, analyzer, args, params, client, db, table, result, callNo,
                   calls, prev, lastSource>>

\* lines 138-166: the fallback for an empty list, else the live dict
GetSchemaDict(p) ==
    /\ pc[p] = "build"
    /\ result' = [result EXCEPT ![p] = SchemaFor(table[p], columns_info[p], params)]
    /\ seen' = [seen EXCEPT ![p] = IF columns_info[p] = <<>> THEN @ \cup {"EmptyResult"} ELSE @]
    /\ pc' = [pc EXCEPT ![p] = "done"]
    /\ UNCHANGED <<PROTON_AVAILABLE, analyzer, args, params, client, db, table, columns_info, qlog,
                   callNo, calls, prev, lastSource>>

\* the caller takes the returned dict; the frame of the call is gone
Return(p) ==
    /\ pc[p] = "done"
    /\ prev' = [table_name |-> table[p], result |-> result[p]]
    /\ lastSource' = result[p].source
    /\ pc' = [pc EXCEPT ![p] = "idle"]
    /\ table' = [table EXCEPT ![p] = ""]
    /\ columns_info' = [columns_info EXCEPT ![p] = <<>>]
    /\ result' = [result EXCEPT ![p] = NoResult]
    /\ qlog' = [qlog EXCEPT ![p] = <<>>]
    /\ seen' = [seen EXCEPT ![p] = {}]
    /\ UNCHANGED <<PROTON_AVAILABLE, analyzer, args, params, client, db, callNo, calls>>

-----------------------------------------------------------------------------
(* The database changes its behaviour *)

\* The database is read once per statement of a call, so a change while a
\* call runs gives the call nothing that a change before it does not.
\* Without the driver the program never talks to the database.
DbChanged ==
    /\ PROTON_AVAILABLE
    /\ \A p \in Threads : pc[p] = "idle"
    /\ prev' = NoPrev
    /\ UNCHANGED <<PROTON_AVAILABLE, analyzer, args, params, client, pc, table, columns_info, result,
                   qlog, seen, callNo, calls, lastSource>>

\* the server starts or stops accepting the client's parameters
DbSetCtor ==
    /\ db' = [db EXCEPT !.ctor = ~@, !.probe = FALSE]
    /\ DbChanged

\* the server starts or stops answering SELECT 1
DbSetProbe ==
    /\ db.ctor
    /\ db' = [db EXCEPT !.probe = ~@]
    /\ DbChanged

\* statement q returns one more row
DbAddRow(q, row) ==
    /\ ~db.query[q].raises
    /\ Len(db.query[q].rows) < RowBound(q)
    /\ db' = [db EXCEPT !.query[q].rows = Append(@, row)]
    /\ DbChanged

\* statement q returns no row
DbClear(q) ==
    /\ db.query[q] # [raises |-> FALSE, rows |-> <<>>]
    /\ db' = [db EXCEPT !.query[q] = [raises |-> FALSE, rows |-> <<>>]]
    /\ DbChanged

\* statement q raises
DbFail(q) ==
    /\ ~db.query[q].raises
    /\ db' = [db EXCEPT !.query[q] = [raises |-> TRUE, rows |-> <<>>]]
    /\ DbChanged

Database ==
    \/ DbSetCtor
    \/ DbSetProbe
    \/ \E q \in Queries : \E row \in Rows(q) : DbAddRow(q, row)
    \/ \E q \in Queries : DbClear(q)
    \/ \E q \in Queries : DbFail(q)

-----------------------------------------------------------------------------
(* One thread calls the reader, as the __main__ block does *)

Step(p) ==
    \/ \E t \in Tables : get_table_schema(p, t)
    \/ Connect(p)
    \/ GetTableColumns(p)
    \/ DescribeTable(p)
    \/ GetSchemaDict(p)
    \/ Return(p)

Next ==
    \/ Step(MainThread)
    \/ Database

Spec == Init /\ [][Next]_vars

-----------------------------------------------------------------------------
(* One thread calls the reader of a healthy database whose table has one   *)
(* column: any column of the two literal tables or one outside them, with  *)
(* any type of the fallback schema, with or without a database comment.    *)

ColumnTypes ==
    { "uint64", "string", "int64", "low_cardinality(string)", "datetime64(3, 'UTC')" }

ColumnRows ==
    { <<n, t, c>> :
        n \in DictKeys(get_column_descriptions) \cup DictKeys(FallbackColumns) \cup {"extra"},
        t \in ColumnTypes,
        c \in {"", "db note"} }

\* the column is reported by system.columns, or by DESCRIBE only
ColumnDbStates ==
    { [ctor |-> TRUE, probe |-> TRUE,
       query |-> [q \in Queries |->
                    [raises |-> FALSE, rows |-> IF q = s THEN <<r>> ELSE <<>>]]] :
        r \in ColumnRows, s \in Queries }

InitColumns ==
    /\ PROTON_AVAILABLE = TRUE
    /\ params = [host |-> "localhost", port |-> 8463, user |-> "default",
                 password |-> "", database |-> "default"]
    /\ client = NoClient
    /\ db \in ColumnDbStates
    /\ pc = [p \in Threads |-> "idle"]
    /\ table = [p \in Threads |-> ""]
    /\ columns_info = [p \in Threads |-> <<>>]
    /\ result = [p \in Threads |-> NoResult]
    /\ qlog = [p \in Threads |-> <<>>]
    /\ seen = [p \in Threads |-> {}]
    /\ callNo = [p \in Threads |-> 0]
    /\ calls = 0
    /\ prev = NoPrev
    /\ lastSource = "none"
    /\ analyzer = AnalyzerDown
    /\ args = [p \in Threads |-> NoArgs]

NextColumns == Step(MainThread)

SpecColumns == InitColumns /\ [][NextColumns]_vars

-----------------------------------------------------------------------------
(* Two threads call get_table_schema on the module's one reader; their     *)
(* steps interleave.                                                       *)

NextConcurrent ==
    \/ \E p \in Threads : Step(p)
    \/ Database

SpecConcurrent == Init /\ [][NextConcurrent]_vars

-----------------------------------------------------------------------------
(* The schema tools of t_metrics_agent_v2.py *)

\* config_manager.timeplus_config with the defaults of TimeplusConfig
timeplus_config == [host |-> "localhost", port |-> 8463, database |-> "default"]

\* _get_column_business_descriptions()
get_column_business_descriptions ==
    << <<"event_ts", "Original event timestamp from source system">>,
       <<"metric", "Metric identifier for filtering and grouping">>,
       <<"value", "Metric value, stored as string, convert with to_float64() for math">>,
       <<"metric_date", "Pre-computed date component for date-based queries">>,
       <<"metric_time", "Pre-computed time component for time-based queries">>,
       <<"metric_datetime", "Combined datetime for temporal analysis">>,
       <<"tagK1", "First tag key for dimensional analysis">>,
       <<"tagV1", "First tag value corresponding to tagK1">>,
       <<"tagK2", "Second tag key for additional dimensions">>,
       <<"tagV2", "Second tag value corresponding to tagK2">>,
       <<"tagK3", "Third tag key for further categorization">>,
       <<"tagV3", "Third tag value corresponding to tagK3">>,
       <<"tagK4", "Fourth tag key for detailed segmentation">>,
       <<"tagV4", "Fourth tag value corresponding to tagK4">>,
       <<"tagK5", "Fifth tag key for finest granularity">>,
       <<"tagV5", "Fifth tag value corresponding to tagK5">>,
       <<"_tp_time", "System ingestion timestamp, use for time windows and filters">> >>

\* the description of one column, lines 237-244
ApiColumnDescription(col_name, col_type, comment) ==
    LET described == IF comment # "" THEN col_type \o " - " \o comment ELSE col_type
    IN  IF DictHas(get_column_business_descriptions, col_name) /\ comment = ""
        THEN described \o " - " \o DictGet(get_column_business_descriptions, col_name)
        ELSE described

\* Variant: a row without column name is kept.
ApiRowKeptAlways(row) == TRUE

\* "if col_name:", line 236: only a row that names a column gives an entry
ApiRowKept(row) == Field(row, 1) # ""

\* the loop of get_table_schema_from_api, lines 229-245: rows whose column
\* name is empty are skipped
RECURSIVE ApiColumns(_, _)
ApiColumns(rows, acc) ==
    IF rows = <<>>
    THEN acc
    ELSE LET row == Head(rows)
         IN  ApiColumns(Tail(rows),
                 IF ApiRowKept(row)
                 THEN DictSet(acc, Field(row, 1),
                              ApiColumnDescription(Field(row, 1), Field(row, 2), Field(row, 3)))
                 ELSE acc)

\* get_table_schema_from_api(table_name), lines 190-276
get_table_schema_from_api(avail, d, table_name) ==
    IF ~avail
    THEN [ success        |-> FALSE,
           source         |-> "driver_unavailable",
           error          |-> "proton-driver not installed",
           table_name     |-> table_name,
           solution       |-> "pip install proton-driver --extra-index-url https://d.timeplus.com/simple/",
           recommendation |-> "Use get_static_schema() as fallback" ]
    ELSE IF ~d.ctor \/ d.query["primary"].raises
    THEN [ success              |-> FALSE,
           source               |-> "connection_error",
           error                |-> "str(e)",
           table_name           |-> table_name,
           connection_attempted |-> timeplus_config.host \o ":" \o ToString(timeplus_config.port),
           recommendation       |-> "Check Timeplus server status or use get_static_schema()" ]
    ELSE LET columns == ApiColumns(d.query["primary"].rows, <<>>)
         IN  IF columns # <<>>
             THEN [ success        |-> TRUE,
                    source         |-> "timeplus_api",
                    table_name     |-> table_name,
                    database       |-> timeplus_config.database,
                    connection     |-> timeplus_config.host \o ":" \o ToString(timeplus_config.port),
                    columns        |-> columns,
                    column_count   |-> Len(columns),
                    recommendation |-> "Use this real-time schema for SQL generation" ]
             ELSE [ success        |-> FALSE,
                    source         |-> "no_data",
                    error          |-> "No columns found for table " \o table_name,
                    table_name     |-> table_name,
                    database       |-> timeplus_config.database,
                    recommendation |-> "Check table name or use get_static_schema()" ]

\* the columns literal of get_static_schema, lines 289-307
StaticColumns ==
    << <<"event_ts", "uint64 - Event timestamp">>,
       <<"metric", "string - Metric name identifier">>,
       <<"value", "string - Metric value (use to_float64() for numeric operations)">>,
       <<"metric_date", "int64 - Date component">>,
       <<"metric_time", "int64 - Time component">>,
       <<"metric_datetime", "int64 - Combined datetime">>,
       <<"tagK1", "low_cardinality(string) - Tag key 1">>,
       <<"tagV1", "string - Tag value 1">>,
       <<"tagK2", "low_cardinality(string) - Tag key 2">>,
       <<"tagV2", "string - Tag value 2">>,
       <<"tagK3", "low_cardinality(string) - Tag key 3">>,
       <<"tagV3", "string - Tag value 3">>,
       <<"tagK4", "low_cardinality(string) - Tag key 4">>,
       <<"tagV4", "string - Tag value 4">>,
       <<"tagK5", "low_cardinality(string) - Tag key 5">>,
       <<"tagV5", "string - Tag value 5">>,
       <<"_tp_time", "datetime64(3, 'UTC') - System timestamp">> >>

\* Variant: the static schema is returned for any table name.
get_static_schema_any_table(table_name) ==
    [ success        |-> TRUE,
      source         |-> "static_definition",
      table_name     |-> table_name,
      columns        |-> StaticColumns,
      column_count   |-> Len(StaticColumns),
      note           |-> "Static schema - may not reflect current database structure",
      recommendation |-> "Prefer API schema when available" ]

\* get_static_schema(table_name), lines 278-325
get_static_schema(table_name) ==
    IF table_name = "t_metrics"
    THEN [ success        |-> TRUE,
           source         |-> "static_definition",
           table_name     |-> table_name,
           columns        |-> StaticColumns,
           column_count   |-> Len(StaticColumns),
           note           |-> "Static schema - may not reflect current database structure",
           recommendation |-> "Prefer API schema when available" ]
    ELSE [ success          |-> FALSE,
           source           |-> "unsupported_table",
           error            |-> "No static schema available for " \o table_name,
           supported_tables |-> <<"t_metrics">>,
           recommendation   |-> "Use get_table_schema_from_api() for other tables" ]

\* a thread calls the tool get_table_schema_from_api(t)
ApiSchemaTool(p, t) ==
    /\ pc[p] = "idle"
    /\ calls < MaxCalls
    /\ calls' = calls + 1
    /\ table' = [table EXCEPT ![p] = t]
    /\ result' = [result EXCEPT ![p] = get_table_schema_from_api(PROTON_AVAILABLE, db, t)]
    /\ pc' = [pc EXCEPT ![p] = "api_done"]
    /\ UNCHANGED <<PROTON_AVAILABLE, analyzer, args, params, client, db, columns_info, qlog, seen,
                   callNo, prev, lastSource>>

\* a thread calls the tool get_static_schema(t)
StaticSchemaTool(p, t) ==
    /\ pc[p] = "idle"
    /\ calls < MaxCalls
    /\ calls' = calls + 1
    /\ table' = [table EXCEPT ![p] = t]
    /\ result' = [result EXCEPT ![p] = get_static_schema(t)]
    /\ pc' = [pc EXCEPT ![p] = "static_done"]
    /\ UNCHANGED <<PROTON_AVAILABLE, analyzer, args, params, client, db, columns_info, qlog, seen,
                   callNo, prev, lastSource>>

\* the agent takes the dict a tool returned
ToolReturn(p) ==
    /\ pc[p] \in {"api_done", "static_done"}
    /\ pc' = [pc EXCEPT ![p] = "idle"]
    /\ table' = [table EXCEPT ![p] = ""]
    /\ result' = [result EXCEPT ![p] = NoResult]
    /\ UNCHANGED <<PROTON_AVAILABLE, analyzer, args, params, client, db, columns_info, qlog, seen,
                   callNo, calls, prev, lastSource>>

NextTools ==
    \/ \E t \in Tables : ApiSchemaTool(MainThread, t)
    \/ \E t \in Tables : StaticSchemaTool(MainThread, t)
    \/ ToolReturn(MainThread)
    \/ Database

SpecTools == Init /\ [][NextTools]_vars

-----------------------------------------------------------------------------
(* validate_sql_query of t_metrics_agent_v2.py *)

\* "port or 3218", line 382
AnalyzerDefaultPort == 3218

\* analyzer_port = port or 3218
analyzer_port(port) == IF port # NoPort THEN port ELSE AnalyzerDefaultPort

\* analyzer_host = host or timeplus_config.host
analyzer_host(host) == IF host # NoHost THEN host ELSE timeplus_config.host

\* f"{analyzer_host}:{analyzer_port}"
AnalyzerAddress(host, port) == analyzer_host(host) \o ":" \o ToString(analyzer_port(port))

\* Variant: an exception of analyze_sql is not caught as a failure.
validate_sql_query_unchecked(an, sql, host, port) ==
    IF ~an.ctor
    THEN [ success        |-> FALSE,
           sql            |-> sql,
           error          |-> "analyzer unreachable",
           analyzer_host  |-> AnalyzerAddress(host, port),
           recommendation |-> "Check SQL syntax and analyzer service availability" ]
    ELSE [ success        |-> TRUE,
           sql            |-> sql,
           analysis       |-> an.analyze[sql].analysis,
           analyzer_host  |-> AnalyzerAddress(host, port),
           recommendation |-> "SQL validation completed successfully" ]

\* validate_sql_query(sql, host, port), lines 362-412: the constructor and
\* analyze_sql run inside try/except Exception.  The address is assigned
\* before either of them (lines 381-382), so the except branch always finds
\* analyzer_host among the locals.
validate_sql_query(an, sql, host, port) ==
    IF ~an.ctor
    THEN [ success        |-> FALSE,
           sql            |-> sql,
           error          |-> "analyzer unreachable",
           analyzer_host  |-> AnalyzerAddress(host, port),
           recommendation |-> "Check SQL syntax and analyzer service availability" ]
    ELSE IF an.analyze[sql].raises
    THEN [ success        |-> FALSE,
           sql            |-> sql,
           error          |-> "analysis failed",
           analyzer_host  |-> AnalyzerAddress(host, port),
           recommendation |-> "Check SQL syntax and analyzer service availability" ]
    ELSE [ success        |-> TRUE,
           sql            |-> sql,
           analysis       |-> an.analyze[sql].analysis,
           analyzer_host  |-> AnalyzerAddress(host, port),
           recommendation |-> "SQL validation completed successfully" ]

\* a thread calls the tool validate_sql_query(sql, host, port)
ValidateSqlTool(p, sql, host, port) ==
    /\ pc[p] = "idle"
    /\ calls < MaxCalls
    /\ calls' = calls + 1
    /\ args' = [args EXCEPT ![p] = [sql |-> sql, host |-> host, port |-> port]]
    /\ result' = [result EXCEPT ![p] = validate_sql_query(analyzer, sql, host, port)]
    /\ pc' = [pc EXCEPT ![p] = "validate_done"]
    /\ UNCHANGED <<PROTON_AVAILABLE, analyzer, params, client, db, table, columns_info,
                   qlog, seen, callNo, prev, lastSource>>

\* the agent takes the dict validate_sql_query returned
ValidateReturn(p) ==
    /\ pc[p] = "validate_done"
    /\ pc' = [pc EXCEPT ![p] = "idle"]
    /\ args' = [args EXCEPT ![p] = NoArgs]
    /\ result' = [result EXCEPT ![p] = NoResult]
    /\ UNCHANGED <<PROTON_AVAILABLE, analyzer, params, client, db, table, columns_info,
                   qlog, seen, callNo, calls, prev, lastSource>>

\* The analyzer service changes only between calls.
AnalyzerChanged ==
    /\ \A p \in Threads : pc[p] = "idle"
    /\ UNCHANGED <<PROTON_AVAILABLE, args, params, client, db, pc, table, columns_info,
                   result, qlog, seen, callNo, calls, prev, lastSource>>

\* the service starts or stops accepting clients
AnalyzerSetCtor ==
    /\ analyzer' = [analyzer EXCEPT !.ctor = ~@]
    /\ AnalyzerChanged

\* the service changes what it does with one SQL string
AnalyzerSetOutcome(sql, outcome) ==
    /\ analyzer.analyze[sql] # outcome
    /\ analyzer' = [analyzer EXCEPT !.analyze[sql] = outcome]
    /\ AnalyzerChanged

Analyzer ==
    \/ AnalyzerSetCtor
    \/ \E sql \in SqlStrings, outcome \in AnalyzeOutcomes : AnalyzerSetOutcome(sql, outcome)

InitValidate ==
    /\ PROTON_AVAILABLE = FALSE
    /\ params = [host |-> "localhost", port |-> 8463, user |-> "default",
                 password |-> "", database |-> "default"]
    /\ client = NoClient
    /\ db = CHOOSE d \in DbStates : ~d.ctor
    /\ pc = [p \in Threads |-> "idle"]
    /\ table = [p \in Threads |-> ""]
    /\ columns_info = [p \in Threads |-> <<>>]
    /\ result = [p \in Threads |-> NoResult]
    /\ qlog = [p \in Threads |-> <<>>]
    /\ seen = [p \in Threads |-> {}]
    /\ callNo = [p \in Threads |-> 0]
    /\ calls = 0
    /\ prev = NoPrev
    /\ lastSource = "none"
    /\ analyzer \in AnalyzerStates
    /\ args = [p \in Threads |-> NoArgs]

NextValidate ==
    \/ \E sql \in SqlStrings, host \in Hosts, port \in Ports :
          ValidateSqlTool(MainThread, sql, host, port)
    \/ ValidateReturn(MainThread)
    \/ Analyzer

SpecValidate == InitValidate /\ [][NextValidate]_vars

-----------------------------------------------------------------------------
(* Properties *)

Returned(p) == pc[p] = "done"

Issued(p, q) == { i \in 1..Len(qlog[p]) : qlog[p][i].q = q }

\* statement q was executed in p's call and came back with n rows (-1: raised)
Got(p, q, n) == \E i \in Issued(p, q) : qlog[p][i].rows = n

Names(columns) == [i \in 1..Len(columns) |-> columns[i][1]]

\* p's call found no live connection: driver absent, constructor or probe failed
NoLiveConnection(p) == seen[p] \cap {"DriverUnavailable", "ConnectionError"} # {}

\* C1: get_schema_dict never raises; whatever the database does, the call
\* ends by returning a dict whose source is "timeplus_api" or "fallback".
C1_NeverRaises ==
    \A p \in Threads :
        /\ pc[p] # "raised"
        /\ Returned(p) => /\ "source" \in DOMAIN result[p]
                          /\ result[p].source \in {"timeplus_api", "fallback"}

\* a call whose system.columns query and DESCRIBE query both raised has returned
C1_Witness ==
    /\ Returned(MainThread)
    /\ Got(MainThread, "primary", -1)
    /\ Got(MainThread, "describe", -1)
    /\ result[MainThread].source = "fallback"

FixedFallbackNames ==
    << "event_ts", "metric", "value", "metric_date", "metric_time", "metric_datetime",
       "tagK1", "tagV1", "tagK2", "tagV2", "tagK3", "tagV3", "tagK4", "tagV4",
       "tagK5", "tagV5", "_tp_time" >>

\* C2: when the constructor or the probe fails, get_schema_dict("t_metrics")
\* returns source "fallback" and the 17 fixed columns in their fixed order.
C2_UnreachableGivesFixedColumns ==
    \A p \in Threads :
        (Returned(p) /\ table[p] = "t_metrics" /\ "ConnectionError" \in seen[p]) =>
            /\ result[p].source = "fallback"
            /\ Len(result[p].columns) = 17
            /\ Names(result[p].columns) = FixedFallbackNames

\* a call for t_metrics whose probe failed has returned
C2_Witness ==
    /\ Returned(MainThread)
    /\ table[MainThread] = "t_metrics"
    /\ Got(MainThread, "probe", -1)
    /\ result[MainThread].source = "fallback"

\* C3: for a table other than t_metrics, a call without a live connection
\* returns source "fallback" and no columns (the result has no field that
\* could say "unsupported").
C3_OtherTableGetsNoColumns ==
    \A p \in Threads :
        (Returned(p) /\ table[p] # "t_metrics" /\ NoLiveConnection(p)) =>
            /\ result[p].source = "fallback"
            /\ result[p].columns = <<>>

\* C4: when connection and probe succeeded and system.columns returned zero
\* rows, DESCRIBE is executed exactly once, after the system.columns query
\* and before the call returns; if DESCRIBE returns zero rows too, the call
\* returns the fallback schema.
C4_DescribeOnceBeforeFallback ==
    \A p \in Threads :
        Got(p, "primary", 0) =>
            /\ Got(p, "probe", 1)
            /\ pc[p] = "describe" => Issued(p, "describe") = {}
            /\ pc[p] \in {"build", "done"} =>
                  /\ Cardinality(Issued(p, "describe")) = 1
                  /\ \A i \in Issued(p, "primary"), j \in Issued(p, "describe") : i < j
            /\ (Returned(p) /\ Got(p, "describe", 0)) =>
                  result[p] = get_fallback_schema(table[p])

\* a call whose system.columns and DESCRIBE queries both returned zero rows
\* has returned the fallback
C4_Witness ==
    /\ Returned(MainThread)
    /\ Got(MainThread, "primary", 0)
    /\ Got(MainThread, "describe", 0)
    /\ result[MainThread].source = "fallback"

\* C5: whenever a call met one of the failure modes (driver absent,
\* connection or probe failure, empty result set, a row with fewer than
\* three fields), it returns source "fallback" and the fixed columns.
C5_EveryFailureFallsBack ==
    \A p \in Threads :
        (Returned(p) /\ seen[p] # {}) =>
            /\ result[p].source = "fallback"
            /\ result[p].columns = FallbackColumns

\* C6: after get_schema_dict has returned, the reader holds no client.
C6_ClientReleasedOnReturn ==
    \A p \in Threads : Returned(p) => client = NoClient

\* C7: the reader refers to at most one Client, and every statement of a
\* call (probe, system.columns, DESCRIBE) is executed on the Client that
\* this call constructed, never on one left by an earlier call.
C7_FreshClientPerCall ==
    /\ client \in {NoClient} \cup 1..calls
    /\ \A p \in Threads : \A i \in 1..Len(qlog[p]) :
          /\ qlog[p][i].client # NoClient
          /\ qlog[p][i].client = callNo[p]

\* the second call of a reader that kept the first call's client has run
\* its system.columns query
C7_Witness ==
    /\ callNo[MainThread] = 2
    /\ prev.result.source = "timeplus_api"
    /\ Issued(MainThread, "primary") # {}

\* C8: a result with source "timeplus_api" has at least one column; when the
\* live queries gave no column, the result is the fallback schema.
C8_LiveHasColumns ==
    \A p \in Threads :
        Returned(p) =>
            /\ result[p].source = "timeplus_api" => result[p].columns # <<>>
            /\ columns_info[p] = <<>> => result[p] = get_fallback_schema(table[p])

\* a connected call whose two queries gave no column has returned the fallback
C8_Witness ==
    /\ Returned(MainThread)
    /\ Got(MainThread, "probe", 1)
    /\ Issued(MainThread, "describe") # {}
    /\ columns_info[MainThread] = <<>>
    /\ result[MainThread].source = "fallback"

\* C9: every result has a source, and it has connection_info (host, port,
\* database of the reader) exactly when the source is "timeplus_api".
C9_ConnectionInfoIffLive ==
    \A p \in Threads :
        Returned(p) =>
            /\ "source" \in DOMAIN result[p]
            /\ ("connection_info" \in DOMAIN result[p]) <=> (result[p].source = "timeplus_api")
            /\ result[p].source = "timeplus_api" =>
                  result[p].connection_info =
                      [host |-> params.host, port |-> params.port, database |-> params.database]

\* a call has returned a fallback result after a failed probe
C9_Witness ==
    /\ Returned(MainThread)
    /\ result[MainThread].source = "fallback"
    /\ "ConnectionError" \in seen[MainThread]

\* C10: a call that follows a live call for the same table, with the
\* database unchanged since that call started, returns the same columns in
\* the same order with the same descriptions (the same dict altogether).
C10_Idempotent ==
    \A p \in Threads :
        (Returned(p) /\ prev.result.source = "timeplus_api" /\ prev.table_name = table[p]) =>
            /\ result[p].columns = prev.result.columns
            /\ result[p] = prev.result

\* the second of two live calls for the same table has returned two columns
C10_Witness ==
    /\ Returned(MainThread)
    /\ prev.result.source = "timeplus_api"
    /\ prev.table_name = table[MainThread]
    /\ Len(result[MainThread].columns) = 2

\* the triple at position i is the last one of its column name, the one whose
\* description the columns dict keeps
LastOf(info, i) == \A j \in (i + 1)..Len(info) : info[j][1] # info[i][1]

LiveReturned(p) == Returned(p) /\ result[p].source = "timeplus_api"

\* C11: for a live column whose name is in the business-description table,
\* the description is "<type> - <database comment>" when the database comment
\* is not empty, and "<type> - <business text>" when it is empty.
C11_CommentMerge ==
    \A p \in Threads :
        LiveReturned(p) =>
            \A i \in 1..Len(columns_info[p]) :
                LET col == columns_info[p][i]
                IN  (LastOf(columns_info[p], i) /\ DictHas(get_column_descriptions, col[1])) =>
                        DictGet(result[p].columns, col[1]) =
                            IF col[3] # ""
                            THEN col[2] \o " - " \o col[3]
                            ELSE col[2] \o " - " \o DictGet(get_column_descriptions, col[1])

\* a live call has described tagK1, which has a database comment
C11_Witness ==
    /\ LiveReturned(MainThread)
    /\ columns_info[MainThread] = << <<"tagK1", "low_cardinality(string)", "db note">> >>
    /\ result[MainThread].columns = << <<"tagK1", "low_cardinality(string) - db note">> >>

\* C12 as stated: every live column whose name is not in the
\* business-description table is described by its raw type alone.
C12_AbsentColumnIsRawType ==
    \A p \in Threads :
        LiveReturned(p) =>
            \A i \in 1..Len(columns_info[p]) :
                LET col == columns_info[p][i]
                IN  (LastOf(columns_info[p], i) /\ ~DictHas(get_column_descriptions, col[1])) =>
                        DictGet(result[p].columns, col[1]) = col[2]

\* C12 amended: a live column whose name is not in the business-description
\* table and whose database comment is empty is described by its raw type
\* alone; with a database comment it is "<type> - <database comment>".
C12_AbsentColumnWithoutComment ==
    \A p \in Threads :
        LiveReturned(p) =>
            \A i \in 1..Len(columns_info[p]) :
                LET col == columns_info[p][i]
                IN  (LastOf(columns_info[p], i) /\ ~DictHas(get_column_descriptions, col[1])) =>
                        DictGet(result[p].columns, col[1]) =
                            IF col[3] = "" THEN col[2] ELSE col[2] \o " - " \o col[3]

\* a live call has described a column outside the table that has no comment
C12_Witness ==
    /\ LiveReturned(MainThread)
    /\ columns_info[MainThread] = << <<"extra", "int64", "">> >>
    /\ result[MainThread].columns = << <<"extra", "int64">> >>

\* the type each column has in the fallback schema
FallbackTypeOf(name) ==
    CASE name = "event_ts" -> "uint64"
      [] name \in {"metric_date", "metric_time", "metric_datetime"} -> "int64"
      [] name \in {"tagK1", "tagK2", "tagK3", "tagK4", "tagK5"} -> "low_cardinality(string)"
      [] name = "_tp_time" -> "datetime64(3, 'UTC')"
      [] OTHER -> "string"

\* C13: the fallback schema and the business-description table have the same
\* 17 column names, each fallback description is "<type> - <business text>",
\* and a live column without database comment that has the fallback type
\* gets the description the fallback schema gives it.
C13_SameBusinessTable ==
    /\ Len(FallbackColumns) = 17
    /\ DictKeys(FallbackColumns) = DictKeys(get_column_descriptions)
    /\ \A i \in 1..Len(FallbackColumns) :
          FallbackColumns[i][2] =
              FallbackTypeOf(FallbackColumns[i][1]) \o " - "
                  \o DictGet(get_column_descriptions, FallbackColumns[i][1])
    /\ \A p \in Threads :
          LiveReturned(p) =>
              \A i \in 1..Len(columns_info[p]) :
                  LET col == columns_info[p][i]
                  IN  ( /\ LastOf(columns_info[p], i)
                        /\ DictHas(FallbackColumns, col[1])
                        /\ col[3] = ""
                        /\ col[2] = FallbackTypeOf(col[1]) ) =>
                          DictGet(result[p].columns, col[1]) = DictGet(FallbackColumns, col[1])

\* a live call has given "value" the description of the fallback schema
C13_Witness ==
    /\ LiveReturned(MainThread)
    /\ columns_info[MainThread] = << <<"value", "string", "">> >>
    /\ result[MainThread].columns =
          << <<"value", "string - Metric value (use to_float64() for numeric operations)">> >>

FixedConstraints ==
    << "SINGLE TABLE ONLY - No JOINs allowed",
       "No subqueries with other tables",
       "Must search CSV knowledge base first to find relevant metrics" >>

\* C14: every result, live or fallback and for any table name, carries the
\* three fixed query constraints and the table name that was asked for.
C14_ConstraintsAndTableName ==
    \A p \in Threads :
        Returned(p) =>
            /\ result[p].constraints = FixedConstraints
            /\ result[p].table_name = table[p]

\* a call for a table other than t_metrics has returned the fallback
C14_Witness ==
    /\ Returned(MainThread)
    /\ table[MainThread] = "orders"
    /\ result[MainThread].source = "fallback"
    /\ result[MainThread].table_name = "orders"

\* C16: host, port, user, password and database keep the values the
\* constructor gave them, whatever calls were made and however they ended.
C16_ParamsUnchanged ==
    params = [host |-> "localhost", port |-> 8463, user |-> "default",
              password |-> "", database |-> "default"]

\* the second call of a reader has returned after a failed probe
C16_Witness ==
    /\ Returned(MainThread)
    /\ callNo[MainThread] = 2
    /\ Got(MainThread, "probe", -1)
    /\ params.host = "localhost"

\* the database refuses the client or fails the probe
Unreachable == ~PROTON_AVAILABLE \/ ~db.ctor \/ ~db.probe

\* the database accepts the client, answers the probe and reports rows
Healthy ==
    /\ PROTON_AVAILABLE /\ db.ctor /\ db.probe
    /\ ~db.query["primary"].raises
    /\ db.query["primary"].rows # <<>>

\* C15: a call probes at most once, on the one Client it constructed, and
\* its outcome follows the database as it is during the call, whatever the
\* earlier calls returned: fallback when the database is unreachable, live
\* when it is healthy.
C15_IndependentAttempts ==
    \A p \in Threads :
        /\ Cardinality(Issued(p, "probe")) <= 1
        /\ \A i \in Issued(p, "probe") : qlog[p][i].client = callNo[p]
        /\ Returned(p) =>
              /\ Unreachable => result[p].source = "fallback"
              /\ Healthy => result[p].source = "timeplus_api"

\* a call that follows a fallback result has returned a live one
C15_Witness ==
    /\ Returned(MainThread)
    /\ lastSource = "fallback"
    /\ Cardinality(Issued(MainThread, "probe")) = 1
    /\ result[MainThread].source = "timeplus_api"

\* a call that follows a live result has returned the fallback of an
\* unreachable database
C15_WitnessBack ==
    /\ Returned(MainThread)
    /\ lastSource = "timeplus_api"
    /\ Unreachable
    /\ result[MainThread].source = "fallback"

\* C17: without the driver a call constructs no Client, executes nothing and
\* returns the fallback; the system.columns query is executed only after the
\* probe of the same call succeeded on the same Client; DESCRIBE is executed
\* only after the system.columns query returned zero rows or raised.
C17_LivePathOrder ==
    \A p \in Threads :
        /\ ~PROTON_AVAILABLE =>
              /\ client = NoClient
              /\ qlog[p] = <<>>
              /\ pc[p] \notin {"columns", "describe", "build"}
              /\ Returned(p) => result[p] = get_fallback_schema(table[p])
        /\ \A i \in Issued(p, "primary") :
              \E j \in Issued(p, "probe") :
                  /\ j < i
                  /\ qlog[p][j].rows = 1
                  /\ qlog[p][j].client = qlog[p][i].client
        /\ \A i \in Issued(p, "describe") :
              \E j \in Issued(p, "primary") :
                  /\ j < i
                  /\ qlog[p][j].rows \in {0, -1}

\* a call whose system.columns query raised has returned the column that
\* DESCRIBE reported
C17_Witness ==
    /\ LiveReturned(MainThread)
    /\ Got(MainThread, "probe", 1)
    /\ Got(MainThread, "primary", -1)
    /\ Got(MainThread, "describe", 1)
    /\ Len(qlog[MainThread]) = 3

\* C18: when calls of two threads interleave on the one reader, every
\* statement of a call is executed on the Client that call constructed, and
\* each call returns what the database as it is gives a call running alone:
\* fallback when unreachable, live when healthy.
C18_NoInterference ==
    \A p \in Threads :
        /\ \A i \in 1..Len(qlog[p]) : qlog[p][i].client = callNo[p]
        /\ Returned(p) =>
              /\ Unreachable => result[p].source = "fallback"
              /\ Healthy => result[p].source = "timeplus_api"

\* the rows of the system.columns answer that name a column
NamedRows == { i \in 1..Len(db.query["primary"].rows) :
                  Field(db.query["primary"].rows[i], 1) # "" }

\* C19: get_table_schema_from_api never raises and returns a self-consistent
\* dict: success holds exactly when source is "timeplus_api", and exactly then
\* the dict has a non-empty columns mapping of named columns, one per named
\* row of the answer, with column_count its size; otherwise source is
\* "driver_unavailable" (no driver), "connection_error" (the constructor or
\* the query raised) or "no_data" (no row names a column), with no columns.
C19_ApiResultConsistent ==
    \A p \in Threads :
        /\ pc[p] # "raised"
        /\ pc[p] = "api_done" =>
              LET r == result[p]
              IN  /\ r.success <=> r.source = "timeplus_api"
                  /\ r.success <=> "columns" \in DOMAIN r
                  /\ r.success =>
                        /\ r.columns # <<>>
                        /\ "column_count" \in DOMAIN r
                        /\ r.column_count = Len(r.columns)
                        /\ r.column_count = Cardinality(DictKeys(r.columns))
                        /\ DictKeys(r.columns) =
                              { Field(db.query["primary"].rows[i], 1) : i \in NamedRows }
                  /\ ~r.success =>
                        /\ r.source \in {"driver_unavailable", "no_data", "connection_error"}
                        /\ "column_count" \notin DOMAIN r
                        /\ r.source = "driver_unavailable" <=> ~PROTON_AVAILABLE
                        /\ r.source = "connection_error" <=>
                              PROTON_AVAILABLE /\ (~db.ctor \/ db.query["primary"].raises)
                        /\ r.source = "no_data" => NamedRows = {}

\* the tool answered no_data although the query returned a row: the row has
\* no column name
C19_Witness ==
    /\ pc[MainThread] = "api_done"
    /\ result[MainThread].source = "no_data"
    /\ db.query["primary"].rows # <<>>

\* the tool succeeded on an answer that also held a row without column name
C19_WitnessSkipped ==
    /\ pc[MainThread] = "api_done"
    /\ result[MainThread].success
    /\ NamedRows # 1..Len(db.query["primary"].rows)

\* C20: get_static_schema never raises; for "t_metrics" it returns success,
\* source "static_definition" and the 17 fixed columns with column_count 17;
\* for any other table it returns failure, source "unsupported_table" and no
\* columns.
C20_StaticOnlyKnownTable ==
    \A p \in Threads :
        /\ pc[p] # "raised"
        /\ pc[p] = "static_done" =>
              LET r == result[p]
              IN  IF table[p] = "t_metrics"
                  THEN /\ r.success
                       /\ r.source = "static_definition"
                       /\ Names(r.columns) = FixedFallbackNames
                       /\ r.columns = FallbackColumns
                       /\ r.column_count = 17
                  ELSE /\ ~r.success
                       /\ r.source = "unsupported_table"
                       /\ "columns" \notin DOMAIN r
                       /\ "column_count" \notin DOMAIN r

\* the tool was asked for another table and refused
C20_Witness ==
    /\ pc[MainThread] = "static_done"
    /\ table[MainThread] = "orders"
    /\ ~result[MainThread].success

\* C21: validate_sql_query never raises and always returns a dict: success
\* holds exactly when the analyzer client was constructed and analyze_sql
\* returned, and the dict then carries that analysis and no error; otherwise
\* it carries a non-empty error text and no analysis.  Either way the dict
\* echoes the sql argument unchanged and reports the analyzer address, which
\* ends in port 3218 when no port was given and in the given port otherwise.
C21_ValidateTotal ==
    \A p \in Threads :
        /\ pc[p] # "raised"
        /\ pc[p] = "validate_done" =>
              LET r == result[p]
                  a == args[p]
                  h == IF a.host = NoHost THEN "localhost" ELSE a.host
              IN  /\ r.success <=> (analyzer.ctor /\ ~analyzer.analyze[a.sql].raises)
                  /\ r.success =>
                        /\ "analysis" \in DOMAIN r
                        /\ r.analysis = analyzer.analyze[a.sql].analysis
                        /\ "error" \notin DOMAIN r
                  /\ ~r.success =>
                        /\ "error" \in DOMAIN r
                        /\ r.error # ""
                        /\ "analysis" \notin DOMAIN r
                  /\ r.sql = a.sql
                  /\ a.port = NoPort => r.analyzer_host = h \o ":3218"
                  /\ a.port = 8000 => r.analyzer_host = h \o ":8000"
                  /\ r.analyzer_host # "unknown"

\* analyze_sql raised on a client that was constructed, in a call without
\* host and port
C21_Witness ==
    /\ pc[MainThread] = "validate_done"
    /\ ~result[MainThread].success
    /\ analyzer.ctor
    /\ args[MainThread].port = NoPort
    /\ args[MainThread].host = NoHost
    /\ args[MainThread].sql = "SELEC metric FROM"

====
